---- MODULE Spec2Model ----
(***************************************************************************)
(* The limitrange and componentstatus collectors of kube-state-metrics     *)
(* (package collectors): registration, Collect and the per-kind conversion.*)
(*                                                                         *)
(* A metric value is kept as an exact fraction [num, den]: the float64     *)
(* values the collectors build are small integers, or integers divided by  *)
(* 1000, all exactly representable below 2^53.                             *)
(***************************************************************************)
EXTENDS Integers, Sequences, FiniteSets, TLC

(* ---------------------------------------------------------------- bounds *)

\* Longest list a mock store returns from List().
MaxItems == 2
\* Scrapes (Gather calls) of one behaviour; caps the process-wide counters.
MaxScrapes == 2
\* Longest Spec.Limits of a generated limit range.
MaxLimits == 1
\* Longest Conditions of a generated component status.
MaxConditions == 2

(* --------------------------------------------------------------- helpers *)

Kinds == {"limitrange", "componentstatus"}

Range(s) == {s[i] : i \in 1..Len(s)}

\* Sequences over S of length at most n.
SeqsUpTo(S, n) == UNION {[1..m -> S] : m \in 0..n}

\* Every order in which the elements of a finite set can be visited.
RECURSIVE Orders(_)
Orders(S) ==
    IF S = {} THEN {<<>>}
    ELSE UNION {{<<x>> \o t : t \in Orders(S \ {x})} : x \in S}

\* The runs made of a run of A followed by a run of B.
Cat(A, B) == {a \o b : a \in A, b \in B}

\* The multiset of the elements of a sequence.
BagOf(s) == [x \in Range(s) |-> Cardinality({i \in 1..Len(s) : s[i] = x})]

(* ----------------------------------------------------------- descriptors *)

descLimitRange ==
    [name |-> "kube_limitrange",
     labels |-> <<"limitrange", "namespace", "resource", "type", "constraint">>]

descLimitRangeCreated ==
    [name |-> "kube_limitrange_created",
     labels |-> <<"limitrange", "namespace">>]

descComponentStatusStatusHealthy ==
    [name |-> "kube_componentstatus_status_healthy",
     labels |-> <<"name", "status">>]

\* The resource kind whose collector declares a descriptor.
DescKind(desc) ==
    IF desc.name = descComponentStatusStatusHealthy.name
    THEN "componentstatus" ELSE "limitrange"

\* prometheus.MustNewConstMetric(desc, GaugeValue, v, lv...): the sample sent.
MustNewConstMetric(desc, v, lv) == [desc |-> desc, lv |-> lv, v |-> v]

(* ------------------------------------------------------------ timestamps *)

\* A time.Time is days since January 1 of year 1 (UTC), seconds in the day
\* and nanoseconds; the zero Time is day 0, second 0, nanosecond 0.
\* January 1, 1970 is day 719162.
UnixEpochDays == 719162
SecondsPerDay == 86400

ZeroTime == [days |-> 0, secs |-> 0, nsec |-> 0]

\* metav1.Time.Unix(): whole seconds since January 1, 1970.
Unix(t) == (t.days - UnixEpochDays) * SecondsPerDay + t.secs

\* metav1.Time.IsZero()
IsZeroOrEpoch(t) ==
    \/ t.days = 0 /\ t.secs = 0 /\ t.nsec = 0
    \/ Unix(t) = 0
IsZero(t) == t.days = 0 /\ t.secs = 0 /\ t.nsec = 0

Times ==
    {ZeroTime,
     [days |-> UnixEpochDays, secs |-> 0, nsec |-> 0],
     [days |-> UnixEpochDays, secs |-> 0, nsec |-> 1],
     [days |-> UnixEpochDays - 1, secs |-> SecondsPerDay - 1, nsec |-> 0],
     [days |-> UnixEpochDays + 17000, secs |-> 3600, nsec |-> 0]}

(* ------------------------------------------------------------ limitrange *)

Milli(n) == [milli |-> n]

\* resource.Quantity.MilliValue()
MilliValue(q) == q.milli

EmptyList == << >>
NoLimits == [r \in {} |-> Milli(0)]

\* addGauge of collectLimitRange: name and namespace lead the label values.
addGaugeNoNamespace(rq, desc, v, lv) ==
    MustNewConstMetric(desc, v, <<rq.Name>> \o lv)
addGauge(rq, desc, v, lv) ==
    MustNewConstMetric(desc, v, <<rq.Name, rq.Namespace>> \o lv)

\* The kube_limitrange_created sample, unless the timestamp is zero.
createdSample(rq) ==
    IF ~IsZero(rq.CreationTimestamp)
    THEN {<<addGauge(rq, descLimitRangeCreated,
                     [num |-> Unix(rq.CreationTimestamp), den |-> 1], <<>>)>>}
    ELSE {<<>>}

\* One "for resource, q := range m" loop: a Go map is visited in any order.
rangeFirstOnly(rq, type, m, constraint) ==
    {IF ord = <<>> THEN <<>>
     ELSE <<addGauge(rq, descLimitRange,
                     [num |-> MilliValue(m[ord[1]]), den |-> 1000],
                     <<ord[1], type, constraint>>)>>
       : ord \in Orders(DOMAIN m)}
rangeQuantities(rq, type, m, constraint) ==
    {[i \in 1..Len(ord) |->
        addGauge(rq, descLimitRange,
                 [num |-> MilliValue(m[ord[i]]), den |-> 1000],
                 <<ord[i], type, constraint>>)]
       : ord \in Orders(DOMAIN m)}

\* The body of the loop over rq.Spec.Limits.
limitItem(rq, item) ==
    Cat(rangeQuantities(rq, item.Type, item.Min, "min"),
    Cat(rangeQuantities(rq, item.Type, item.Max, "max"),
    Cat(rangeQuantities(rq, item.Type, item.Default, "default"),
    Cat(rangeQuantities(rq, item.Type, item.DefaultRequest, "defaultRequest"),
        rangeQuantities(rq, item.Type, item.MaxLimitRequestRatio,
                        "maxLimitRequestRatio")))))

RECURSIVE limitsLoop(_, _)
limitsLoop(rq, limits) ==
    IF limits = <<>> THEN {<<>>}
    ELSE Cat(limitItem(rq, Head(limits)), limitsLoop(rq, Tail(limits)))

\* collectLimitRange(ch, rq): every run of samples it can send.
collectLimitRange(rq) == Cat(createdSample(rq), limitsLoop(rq, rq.Spec.Limits))

(* ------------------------------------------------------- componentstatus *)

ComponentHealthy == "Healthy"
ConditionTrue == "True"
ConditionFalse == "False"
ConditionUnknown == "Unknown"

boolFloat64(b) == [num |-> IF b THEN 1 ELSE 0, den |-> 1]

\* addConstMetric / addGauge of collectComponentStatus: the name leads.
addConstMetric(s, desc, v, lv) == MustNewConstMetric(desc, v, <<s.Name>> \o lv)

\* The three samples sent for a condition of type Healthy.
healthySamples(s, p) ==
    <<addConstMetric(s, descComponentStatusStatusHealthy,
                     boolFloat64(p.Status = ConditionTrue), <<ConditionTrue>>),
      addConstMetric(s, descComponentStatusStatusHealthy,
                     boolFloat64(p.Status = ConditionFalse), <<ConditionFalse>>),
      addConstMetric(s, descComponentStatusStatusHealthy,
                     boolFloat64(p.Status = ConditionUnknown), <<ConditionUnknown>>)>>

\* The loop over s.Conditions, which breaks at the first Healthy condition.
RECURSIVE conditionsLoopNoBreak(_, _)
conditionsLoopNoBreak(s, conds) ==
    IF conds = <<>> THEN <<>>
    ELSE IF Head(conds).Type = ComponentHealthy
         THEN healthySamples(s, Head(conds)) \o conditionsLoopNoBreak(s, Tail(conds))
         ELSE conditionsLoopNoBreak(s, Tail(conds))
RECURSIVE conditionsLoop(_, _)
conditionsLoop(s, conds) ==
    IF conds = <<>> THEN <<>>
    ELSE IF Head(conds).Type = ComponentHealthy
         THEN healthySamples(s, Head(conds))
         ELSE conditionsLoop(s, Tail(conds))

\* collectComponentStatus(ch, s): every run of samples it can send (one).
collectComponentStatus(s) == {conditionsLoop(s, s.Conditions)}

(* ------------------------------------------------------ generated inputs *)

Resources == {"cpu", "memory"}
Quantities == {Milli(1500)}

\* Resource lists over all of Resources, and over "memory" alone.
ResourceLists == UNION {[D -> Quantities] : D \in SUBSET Resources}
ShortResourceLists == UNION {[D -> Quantities] : D \in SUBSET {"memory"}}

LimitRangeItems ==
    [Type : {"Container"},
     Min : ResourceLists,
     Max : ShortResourceLists,
     Default : ShortResourceLists,
     DefaultRequest : ShortResourceLists,
     MaxLimitRequestRatio : ShortResourceLists]

LimitRanges ==
    [Name : {"limits"}, Namespace : {"default"},
     CreationTimestamp : Times,
     Spec : [Limits : SeqsUpTo(LimitRangeItems, MaxLimits)]]

ConditionTypes == {ComponentHealthy, "Degraded"}
\* The three defined statuses, and the empty status of an unset field.
ConditionStatuses == {ConditionTrue, ConditionFalse, ConditionUnknown, ""}

ComponentConditions == [Type : ConditionTypes, Status : ConditionStatuses]

ComponentStatuses ==
    [Name : {"etcd-0"},
     Conditions : SeqsUpTo(ComponentConditions, MaxConditions)]

(* ---------------------------------------------------- objects of a scrape *)

\* What the stores of the scrape hold: per kind, an object that converts to
\* several samples and one that converts to a single sample or to none.
ScrapeObjects(k) ==
    IF k = "limitrange"
    THEN {[Name |-> "cpu-mem", Namespace |-> "default",
           CreationTimestamp |-> ZeroTime,
           Spec |-> [Limits |->
              <<[Type |-> "Pod",
                 Min |-> [r \in Resources |-> Milli(1500)],
                 Max |-> NoLimits, Default |-> NoLimits,
                 DefaultRequest |-> NoLimits,
                 MaxLimitRequestRatio |-> NoLimits]>>]],
          [Name |-> "created-only", Namespace |-> "kube-system",
           CreationTimestamp |->
              [days |-> UnixEpochDays + 17000, secs |-> 3600, nsec |-> 0],
           Spec |-> [Limits |-> EmptyList]]}
    ELSE {[Name |-> "etcd-0",
           Conditions |-> <<[Type |-> ComponentHealthy, Status |-> ConditionUnknown]>>],
          [Name |-> "scheduler",
           Conditions |-> <<[Type |-> "Degraded", Status |-> ConditionTrue]>>]}

\* A test double of limitRangeStore / componentStatusStore: List() returns
\* an error, or a list of objects, the same at every call.
MockStores(k) ==
    {[err |-> TRUE, items |-> EmptyList]}
    \cup {[err |-> FALSE, items |-> l] : l \in SeqsUpTo(ScrapeObjects(k), MaxItems)}

(* -------------------------------------------------------------- variables *)

VARIABLES
    store,              \* per kind, the collector's store
    pc,                 \* per kind, where its Collect call stands
    items,              \* per kind, the list Collect got from List()
    idx,                \* per kind, the loop index over items
    failed,             \* per kind, whether List() returned an error
    ch,                 \* the samples the registry received this scrape
    ScrapeErrorTotal,   \* ksm_scrape_error_total, per resource label
    ResourcesPerScrape, \* ksm_resources_per_scrape, per resource label:
                        \* the values observed, in order
    scrapes,            \* scrapes completed
    base,               \* per kind, the counters when its Collect began
    prev,               \* per kind, what its previous Collect sent
    convKind, convObj, convOut, convDone,
    informer,           \* per kind, where the informer task stands
    stopCh,             \* per kind, the stop channel the task was given
    pending,            \* per kind, listed objects not yet in the mirror
    mirror,             \* per kind, the informer's store
    shutdown,           \* whether the process got its shutdown signal
    listRes             \* per kind, the last result of the registered lister

scrapeVars ==
    <<store, pc, items, idx, failed, ch, ScrapeErrorTotal, ResourcesPerScrape,
      scrapes, base, prev>>
convVars == <<convKind, convObj, convOut, convDone>>
informerVars == <<informer, stopCh, pending, mirror, shutdown, listRes>>
vars == <<scrapeVars, convVars, informerVars>>

NoObject == [Name |-> ""]

ScrapeIdle ==
    /\ pc = [k \in Kinds |-> "idle"]
    /\ items = [k \in Kinds |-> EmptyList]
    /\ idx = [k \in Kinds |-> 0]
    /\ failed = [k \in Kinds |-> FALSE]
    /\ ch = <<>>
    /\ ScrapeErrorTotal = [k \in Kinds |-> 0]
    /\ ResourcesPerScrape = [k \in Kinds |-> <<>>]
    /\ scrapes = 0
    /\ base = [k \in Kinds |-> [errors |-> 0, observed |-> <<>>]]
    /\ prev = [k \in Kinds |-> [some |-> FALSE, sent |-> <<>>]]

ConvIdle ==
    /\ convKind = "none"
    /\ convObj = NoObject
    /\ convOut = <<>>
    /\ convDone = FALSE

InformerIdle ==
    /\ informer = [k \in Kinds |-> "unregistered"]
    /\ stopCh = [k \in Kinds |-> "none"]
    /\ pending = [k \in Kinds |-> {}]
    /\ mirror = [k \in Kinds |-> {}]
    /\ shutdown = FALSE
    /\ listRes = [k \in Kinds |->
          [called |-> FALSE, err |-> FALSE, items |-> EmptyList,
           synced |-> FALSE, mirror |-> {}]]

(* ------------------------------------------------------------- a scrape *)

\* The samples of the scrape that the collector of kind k sent.
Emitted(k) == SelectSeq(ch, LAMBDA s : DescKind(s.desc) = k)

\* The per-kind conversion routine.
collectObject(k, obj) ==
    IF k = "limitrange" THEN collectLimitRange(obj) ELSE collectComponentStatus(obj)

\* lrc.store.List() / csc.store.List()
List(k) == {[items |-> store[k].items, err |-> store[k].err]}

\* if err != nil { ScrapeErrorTotalMetric...Inc(); glog.Errorf; return }
OnListErrorObserves(k) ==
    /\ ScrapeErrorTotal' = [ScrapeErrorTotal EXCEPT ![k] = @ + 1]
    /\ ResourcesPerScrape' = [ResourcesPerScrape EXCEPT ![k] = Append(@, 0)]
    /\ failed' = [failed EXCEPT ![k] = TRUE]
    /\ pc' = [pc EXCEPT ![k] = "done"]
    /\ UNCHANGED <<ch, items, idx>>
OnListErrorAborts(k) ==
    /\ ScrapeErrorTotal' = [ScrapeErrorTotal EXCEPT ![k] = @ + 1]
    /\ failed' = [failed EXCEPT ![k] = TRUE]
    /\ pc' = [j \in Kinds |-> "done"]
    /\ UNCHANGED <<ResourcesPerScrape, ch, items, idx>>
OnListError(k) ==
    /\ ScrapeErrorTotal' = [ScrapeErrorTotal EXCEPT ![k] = @ + 1]
    /\ failed' = [failed EXCEPT ![k] = TRUE]
    /\ pc' = [pc EXCEPT ![k] = "done"]
    /\ UNCHANGED <<ResourcesPerScrape, ch, items, idx>>

\* ResourcesPerScrapeMetric...Observe(float64(len(list.Items))), then the
\* loop over list.Items is entered (and left at once when the list is empty).
OnListedSkipsEmpty(k, list) ==
    /\ ResourcesPerScrape' =
          [ResourcesPerScrape EXCEPT
              ![k] = IF list = <<>> THEN @ ELSE Append(@, Len(list))]
    /\ items' = [items EXCEPT ![k] = list]
    /\ idx' = [idx EXCEPT ![k] = 1]
    /\ failed' = [failed EXCEPT ![k] = FALSE]
    /\ pc' = [pc EXCEPT ![k] = IF list = <<>> THEN "done" ELSE "loop"]
    /\ UNCHANGED <<ScrapeErrorTotal, ch>>
OnListed(k, list) ==
    /\ ResourcesPerScrape' = [ResourcesPerScrape EXCEPT ![k] = Append(@, Len(list))]
    /\ items' = [items EXCEPT ![k] = list]
    /\ idx' = [idx EXCEPT ![k] = 1]
    /\ failed' = [failed EXCEPT ![k] = FALSE]
    /\ pc' = [pc EXCEPT ![k] = IF list = <<>> THEN "done" ELSE "loop"]
    /\ UNCHANGED <<ScrapeErrorTotal, ch>>

\* Collect, from its entry to the first object of the loop.
CollectBegin(k) ==
    /\ pc[k] = "idle"
    /\ scrapes < MaxScrapes
    /\ base' = [base EXCEPT ![k] = [errors |-> ScrapeErrorTotal[k],
                                    observed |-> ResourcesPerScrape[k]]]
    /\ \E r \in List(k) :
          IF r.err THEN OnListError(k) ELSE OnListed(k, r.items)
    /\ UNCHANGED <<store, scrapes, prev, convVars, informerVars>>

\* One pass of the loop body: collectLimitRange / collectComponentStatus of
\* the next object; Collect returns after the last one.
CollectObject(k) ==
    /\ pc[k] = "loop"
    /\ \E out \in collectObject(k, items[k][idx[k]]) : ch' = ch \o out
    /\ idx' = [idx EXCEPT ![k] = @ + 1]
    /\ pc' = [pc EXCEPT ![k] = IF idx[k] = Len(items[k]) THEN "done" ELSE "loop"]
    /\ UNCHANGED <<store, items, failed, ScrapeErrorTotal, ResourcesPerScrape,
                   scrapes, base, prev, convVars, informerVars>>

\* Every Collect of the scrape has returned: the registry hands the samples
\* to the client and the collectors wait for the next scrape.
GatherReturn ==
    /\ \A k \in Kinds : pc[k] = "done"
    /\ prev' = [k \in Kinds |-> [some |-> TRUE, sent |-> Emitted(k)]]
    /\ ch' = <<>>
    /\ pc' = [k \in Kinds |-> "idle"]
    /\ items' = [k \in Kinds |-> EmptyList]
    /\ idx' = [k \in Kinds |-> 0]
    /\ failed' = [k \in Kinds |-> FALSE]
    /\ scrapes' = scrapes + 1
    /\ UNCHANGED <<store, ScrapeErrorTotal, ResourcesPerScrape, base, convVars,
                   informerVars>>

Init ==
    /\ \E l \in MockStores("limitrange"), c \in MockStores("componentstatus") :
          store = [k \in Kinds |-> IF k = "limitrange" THEN l ELSE c]
    /\ ScrapeIdle
    /\ ConvIdle
    /\ InformerIdle

Next ==
    \/ \E k \in Kinds : CollectBegin(k)
    \/ \E k \in Kinds : CollectObject(k)
    \/ GatherReturn

Spec == Init /\ [][Next]_vars

(* ------------------------------------------ conversion of a single object *)

ConvInit ==
    /\ \/ convKind = "limitrange" /\ convObj \in LimitRanges
       \/ convKind = "componentstatus" /\ convObj \in ComponentStatuses
    /\ convOut = <<>>
    /\ convDone = FALSE
    /\ store = [k \in Kinds |-> [err |-> TRUE, items |-> EmptyList]]
    /\ ScrapeIdle
    /\ InformerIdle

ConvertLimitRange ==
    /\ convKind = "limitrange" /\ ~convDone
    /\ convOut' \in collectLimitRange(convObj)
    /\ convDone' = TRUE
    /\ UNCHANGED <<convKind, convObj, scrapeVars, informerVars>>

ConvertComponentStatus ==
    /\ convKind = "componentstatus" /\ ~convDone
    /\ convOut' \in collectComponentStatus(convObj)
    /\ convDone' = TRUE
    /\ UNCHANGED <<convKind, convObj, scrapeVars, informerVars>>

ConvNext == ConvertLimitRange \/ ConvertComponentStatus

ConvSpec == ConvInit /\ [][ConvNext]_vars

(* --------------------------------------- registration and the informer *)

\* cache.SharedInformer.HasSynced(): the initial list is wholly in the store.
HasSynced(k) == informer[k] = "synced"

\* The lister RegisterLimitRangeCollector / RegisterComponentStatusCollector
\* builds: the objects of rqinf.GetStore().List(), a map visited in any
\* order, and a nil error.
registeredLister(k) == {[items |-> l, err |-> FALSE] : l \in Orders(mirror[k])}

\* RegisterLimitRangeCollector / RegisterComponentStatusCollector: the
\* collector is registered with the lister as its store and the informer is
\* started on context.Background().Done(), a nil channel.
Register(k) ==
    /\ ~shutdown
    /\ informer[k] = "unregistered"
    /\ informer' = [informer EXCEPT ![k] = "started"]
    /\ stopCh' = [stopCh EXCEPT ![k] = "nil"]
    /\ UNCHANGED <<pending, mirror, shutdown, listRes, scrapeVars, convVars>>

\* The informer task runs until its stop channel is closed.
Running(k) == ~shutdown /\ stopCh[k] # "closed"

\* rqinf.Run: the initial list of the kind is queued for the store.
InformerList(k) ==
    /\ Running(k)
    /\ informer[k] = "started"
    /\ \E listed \in SUBSET ScrapeObjects(k) :
          /\ pending' = [pending EXCEPT ![k] = listed]
          /\ informer' = [informer EXCEPT ![k] =
                             IF listed = {} THEN "synced" ELSE "syncing"]
    /\ UNCHANGED <<stopCh, mirror, shutdown, listRes, scrapeVars, convVars>>

\* rqinf.Run: one queued object is added to the store; the informer has
\* synced once the queue of the initial list is empty.
InformerPop(k) ==
    /\ Running(k)
    /\ informer[k] = "syncing"
    /\ \E o \in pending[k] :
          /\ mirror' = [mirror EXCEPT ![k] = @ \cup {o}]
          /\ pending' = [pending EXCEPT ![k] = @ \ {o}]
          /\ informer' = [informer EXCEPT ![k] =
                             IF pending[k] = {o} THEN "synced" ELSE "syncing"]
    /\ UNCHANGED <<stopCh, shutdown, listRes, scrapeVars, convVars>>

\* rqinf.Run: a watch event adds an object to the store or deletes one.
InformerEvent(k) ==
    /\ Running(k)
    /\ informer[k] = "synced"
    /\ \E o \in ScrapeObjects(k) :
          mirror' = [mirror EXCEPT ![k] =
                        IF o \in @ THEN @ \ {o} ELSE @ \cup {o}]
    /\ UNCHANGED <<informer, stopCh, pending, shutdown, listRes, scrapeVars,
                   convVars>>

\* A call of the registered lister's List().
ListerList(k) ==
    /\ ~shutdown
    /\ informer[k] # "unregistered"
    /\ \E r \in registeredLister(k) :
          listRes' = [listRes EXCEPT ![k] =
                         [called |-> TRUE, err |-> r.err, items |-> r.items,
                          synced |-> HasSynced(k), mirror |-> mirror[k]]]
    /\ UNCHANGED <<informer, stopCh, pending, mirror, shutdown, scrapeVars,
                   convVars>>

\* The process gets its shutdown signal and ends; nothing closes a stop
\* channel.
Shutdown ==
    /\ ~shutdown
    /\ shutdown' = TRUE
    /\ UNCHANGED <<informer, stopCh, pending, mirror, listRes, scrapeVars,
                   convVars>>

InformerInit ==
    /\ store = [k \in Kinds |-> [err |-> TRUE, items |-> EmptyList]]
    /\ ScrapeIdle
    /\ ConvIdle
    /\ InformerIdle

InformerTask == \E k \in Kinds : InformerList(k) \/ InformerPop(k)

InformerNext ==
    \/ \E k \in Kinds : Register(k)
    \/ \E k \in Kinds : InformerList(k)
    \/ \E k \in Kinds : InformerPop(k)
    \/ \E k \in Kinds : InformerEvent(k)
    \/ \E k \in Kinds : ListerList(k)
    \/ Shutdown

\* The Go scheduler runs a started goroutine: the informer task is not
\* starved while it has a step to take.
InformerSpec ==
    InformerInit /\ [][InformerNext]_vars /\ WF_vars(InformerTask)

(* ----------------------------------------------------------------- claims *)

Other(k) == CHOOSE o \in Kinds : o # k

\* What a Collect of kind k sends when it runs alone on a list: the runs of
\* its objects, one after the other.
RECURSIVE CollectAlone(_, _)
CollectAlone(k, list) ==
    IF list = <<>> THEN {<<>>}
    ELSE Cat(collectObject(k, Head(list)), CollectAlone(k, Tail(list)))

\* C1: a Collect whose List() returned an error has raised the scrape-error
\* counter of its resource kind by exactly 1, has sent no sample and has made
\* no resources-per-scrape observation.
C1_ErrorCountedNothingSent ==
    \A k \in Kinds :
        (pc[k] = "done" /\ failed[k]) =>
            /\ ScrapeErrorTotal[k] = base[k].errors + 1
            /\ Emitted(k) = <<>>
            /\ ResourcesPerScrape[k] = base[k].observed

\* A failed Collect of the second scrape, while the other collector's samples
\* are on the channel.
C1_Witness ==
    \E k \in Kinds :
        /\ pc[k] = "done" /\ failed[k]
        /\ scrapes = 1
        /\ ScrapeErrorTotal[k] = 2
        /\ Emitted(Other(k)) # <<>>

\* C2: the registered lister returns an error whenever the mirror has not
\* synchronized, and a result without error is the whole mirror of a
\* synchronized informer.
C2_ListerErrorsUntilSynced ==
    \A k \in Kinds :
        listRes[k].called =>
            /\ ~listRes[k].synced => listRes[k].err
            /\ ~listRes[k].err =>
                  /\ listRes[k].synced
                  /\ Range(listRes[k].items) = listRes[k].mirror
                  /\ Len(listRes[k].items) = Cardinality(listRes[k].mirror)

\* C3: a Collect whose List() returned N objects has made exactly one
\* resources-per-scrape observation for its kind, of value N, whatever the
\* objects convert to.
C3_ObservesListLength ==
    \A k \in Kinds :
        (pc[k] \in {"loop", "done"} /\ ~failed[k]) =>
            ResourcesPerScrape[k] = Append(base[k].observed, Len(items[k]))

\* Two objects listed, none of which converts to a sample.
C3_Witness ==
    \E k \in Kinds :
        /\ pc[k] = "done" /\ ~failed[k]
        /\ Len(items[k]) = 2
        /\ Emitted(k) = <<>>
        /\ ResourcesPerScrape[k] = <<2, 2>>

\* C4: every sample the conversion of an object sends has as many label
\* values as its descriptor has label names: 5 for kube_limitrange, 2 for
\* kube_limitrange_created, 2 for kube_componentstatus_status_healthy.
C4_LabelArity ==
    convDone =>
        \A i \in 1..Len(convOut) :
            LET s == convOut[i] IN
            /\ Len(s.lv) = Len(s.desc.labels)
            /\ \/ s.desc = descLimitRange /\ Len(s.lv) = 5
               \/ s.desc = descLimitRangeCreated /\ Len(s.lv) = 2
               \/ s.desc = descComponentStatusStatusHealthy /\ Len(s.lv) = 2

\* A limit range that converts to samples of both of its descriptors.
C4_Witness ==
    /\ convDone
    /\ \E i, j \in 1..Len(convOut) :
          /\ convOut[i].desc = descLimitRange
          /\ convOut[j].desc = descLimitRangeCreated

HealthyConditions(s) ==
    {i \in 1..Len(s.Conditions) : s.Conditions[i].Type = ComponentHealthy}

\* C5: a component status with a Healthy condition converts to three samples
\* labelled True, False and Unknown, exactly one of value 1 and two of
\* value 0, whatever the status of the condition.
C5_ExactlyOneStatusIsOne ==
    (convDone /\ convKind = "componentstatus" /\ HealthyConditions(convObj) # {}) =>
        /\ Len(convOut) = 3
        /\ <<convOut[1].lv[2], convOut[2].lv[2], convOut[3].lv[2]>>
              = <<ConditionTrue, ConditionFalse, ConditionUnknown>>
        /\ Cardinality({i \in 1..3 : convOut[i].v = [num |-> 1, den |-> 1]}) = 1
        /\ Cardinality({i \in 1..3 : convOut[i].v = [num |-> 0, den |-> 1]}) = 2

CreatedSamples(out) == {i \in 1..Len(out) : out[i].desc = descLimitRangeCreated}

\* C6: a limit range with the zero creation timestamp converts to no
\* kube_limitrange_created sample; one with any other timestamp T converts to
\* exactly one, labelled (name, namespace), of value the unix seconds of T.
C6_CreatedUnlessZero ==
    (convDone /\ convKind = "limitrange") =>
        IF convObj.CreationTimestamp = ZeroTime
        THEN CreatedSamples(convOut) = {}
        ELSE /\ Cardinality(CreatedSamples(convOut)) = 1
             /\ \A i \in CreatedSamples(convOut) :
                   /\ convOut[i].lv = <<convObj.Name, convObj.Namespace>>
                   /\ convOut[i].v.den = 1
                   /\ convOut[i].v.num =
                         (convObj.CreationTimestamp.days - UnixEpochDays) * SecondsPerDay
                            + convObj.CreationTimestamp.secs

\* A limit range created at the unix epoch: its timestamp is not the zero
\* Time, and its sample has value 0.
C6_Witness ==
    /\ convDone /\ convKind = "limitrange"
    /\ convObj.CreationTimestamp # ZeroTime
    /\ \E i \in CreatedSamples(convOut) : convOut[i].v = [num |-> 0, den |-> 1]

\* C7: a Collect against the store of the previous Collect, the store
\* unchanged, sends the samples the previous one sent, each as often,
\* whatever the order in which the maps are visited.
C7_SameSamplesAgain ==
    \A k \in Kinds :
        (pc[k] = "done" /\ prev[k].some) => BagOf(Emitted(k)) = BagOf(prev[k].sent)

\* Two Collects of one list that visited a map in different orders.
C7_Witness ==
    \E k \in Kinds :
        /\ pc[k] = "done" /\ prev[k].some /\ ~failed[k]
        /\ Emitted(k) # prev[k].sent

\* C8: when the Collect of one kind fails, it returns, and the Collect of the
\* other kind makes the observation and sends the samples it makes and sends
\* when run alone on its list; a scrape under way is never stuck.
C8_FailureIsolated ==
    /\ \A k \in Kinds :
          (pc[k] = "done" /\ failed[k] /\ pc[Other(k)] = "done" /\ ~failed[Other(k)]) =>
              LET o == Other(k) IN
              /\ Emitted(o) \in CollectAlone(o, store[o].items)
              /\ ResourcesPerScrape[o] =
                    Append(base[o].observed, Len(store[o].items))
              /\ ScrapeErrorTotal[o] = base[o].errors
    /\ (\E k \in Kinds : pc[k] # "idle") => ENABLED Next

\* One collector failed and the other sent the samples of two objects.
C8_Witness ==
    \E k \in Kinds :
        /\ pc[k] = "done" /\ failed[k]
        /\ pc[Other(k)] = "done" /\ ~failed[Other(k)]
        /\ Len(items[Other(k)]) = 2
        /\ Len(Emitted(Other(k))) >= 3

\* C9: once the process has its shutdown signal, the stop channel of every
\* started informer task is eventually closed.
C9_ShutdownStopsInformers ==
    shutdown ~> (\A k \in Kinds : informer[k] # "unregistered" => stopCh[k] = "closed")

\* C10: a component status converts to 3 samples when a condition of type
\* Healthy is present and to none otherwise, and a sample has value 1 exactly
\* when its status label is the status of the first Healthy condition.
C10_FirstHealthyWins ==
    (convDone /\ convKind = "componentstatus") =>
        IF HealthyConditions(convObj) = {}
        THEN convOut = <<>>
        ELSE LET first == CHOOSE i \in HealthyConditions(convObj) :
                             \A j \in HealthyConditions(convObj) : i <= j
             IN /\ Len(convOut) = 3
                /\ \A n \in 1..3 :
                      /\ convOut[n].desc = descComponentStatusStatusHealthy
                      /\ convOut[n].v \in {[num |-> 0, den |-> 1], [num |-> 1, den |-> 1]}
                      /\ convOut[n].v.num = 1
                            <=> convOut[n].lv[2] = convObj.Conditions[first].Status
                /\ {convOut[n].lv[2] : n \in 1..3}
                      = {ConditionTrue, ConditionFalse, ConditionUnknown}

\* Two Healthy conditions of different statuses: the first one is False, the
\* second True, and the sample labelled False has value 1.
C10_Witness ==
    /\ convDone /\ convKind = "componentstatus"
    /\ Len(convObj.Conditions) = 2
    /\ convObj.Conditions[1] = [Type |-> ComponentHealthy, Status |-> ConditionFalse]
    /\ convObj.Conditions[2] = [Type |-> ComponentHealthy, Status |-> ConditionTrue]
    /\ convOut[2].v = [num |-> 1, den |-> 1]

====
